---- MODULE Spec2Model ----
(***************************************************************************)
(* Model of spyder_unittest/widgets/datatree.py: TestDataModel (a two-level *)
(* QAbstractItemModel over a list of TestResult) and TestDataView (the tree *)
(* view whose reset() spans the detail rows).                               *)
(*                                                                          *)
(* Python lists are objects: the model keeps a REFERENCE to the list it is  *)
(* given, so the lists live in a heap and `_testresults` is a reference.    *)
(* The backend keeps the list it assigned last; a list neither the backend  *)
(* nor the model refers to any more is collected (emptied here).            *)
(***************************************************************************)
EXTENDS Integers, Sequences, FiniteSets, TLC

VARIABLES
    heap,        \* the list objects: reference -> sequence of TestResult
    testresults, \* self._testresults: a reference into the heap
    passed,      \* backend's lists: the content each had when assigned
    pc,          \* position inside the running call
    op,          \* the entry point that is running / has just returned
    new_value,   \* the setter's argument (a reference)
    new_tests,   \* add_testresults' argument (a list value)
    pre,         \* the model's sequence when the call was entered
    emitted,     \* notifications emitted by the call, in order
    spanned      \* TestDataView: the <<top row, child row>> marked spanned

vars == <<heap, testresults, passed, pc, op, new_value, new_tests, pre,
          emitted, spanned>>

(***************************************************************************)
(* Bounds                                                                   *)
(***************************************************************************)
MaxRows == 3    \* most results the model holds
MaxNew == 2     \* longest list the backend supplies in one call
MaxExtra == 2   \* most detail lines of one result

(***************************************************************************)
(* Constants of the module                                                  *)
(***************************************************************************)
STATUS_COLUMN == 0
NAME_COLUMN == 1
MESSAGE_COLUMN == 2
TIME_COLUMN == 3

HEADERS == <<"Status", "Name", "Message", "Time (ms)">>

\* 2 ** 32 - 1 in the source; TLC's integers end at 2^31 - 1, and the id is
\* only ever compared with row numbers, so the largest TLC integer stands
\* for it.
TOPLEVEL_ID == 2147483647

COLORS == [OK |-> "#C1FFBA", FAIL |-> "#FF0000", SKIP |-> "#C5C5C5",
           PENDING |-> "#C5C5C5"]

Category == {"OK", "FAIL", "SKIP", "PENDING"}

(***************************************************************************)
(* TestResult records supplied by the backend.  `time` is an optional       *)
(* number of seconds: << >> is None, <<t>> is t.                            *)
(***************************************************************************)
ExtraText(n) == [i \in 1..n |-> "line" \o ToString(i)]

TestResult(cat, nm, t, n) ==
    [category |-> cat, status |-> "status_" \o nm, name |-> nm,
     module |-> "mod", message |-> "msg_" \o nm, time |-> t,
     extra_text |-> ExtraText(n)]

Samples ==
    { TestResult("OK", "test_a", <<2>>, 0),
      TestResult("FAIL", "test_b", <<0>>, MaxExtra),
      TestResult("SKIP", "test_c", <<>>, 1),
      TestResult("PENDING", "test_d", <<>>, 0) }

SeqsUpTo(S, n) == UNION {[1..k -> S] : k \in 0..n}

\* the lists the backend passes in
ArgLists == SeqsUpTo(Samples, MaxNew)

(***************************************************************************)
(* Python and Qt primitives used by the model class                         *)
(***************************************************************************)
\* the outcome of a call: a returned value, or an exception that propagates
Return(v) == [exc |-> "none", val |-> v]
Raise(e) == [exc |-> e]

\* seq[i] on a Python list: negative i counts from the end, anything
\* outside [-len, len) raises IndexError
GetItem(seq, i) ==
    IF 0 <= i /\ i < Len(seq) THEN Return(seq[i + 1])
    ELSE IF i < 0 /\ -Len(seq) <= i THEN Return(seq[Len(seq) + i + 1])
    ELSE Raise("IndexError")

\* QModelIndex(): the invalid index, which also denotes the root
QModelIndex == [valid |-> FALSE, row |-> -1, column |-> -1, id |-> 0]

\* QAbstractItemModel.createIndex(row, column, id)
createIndex(row, column, id) ==
    [valid |-> TRUE, row |-> row, column |-> column, id |-> id]

\* Qt item data roles; UserRole stands for every role data() does not handle
DisplayRole == "DisplayRole"
ToolTipRole == "ToolTipRole"
FontRole == "FontRole"
BackgroundRole == "BackgroundRole"
Roles == {DisplayRole, ToolTipRole, FontRole, BackgroundRole, "EditRole",
          "UserRole"}

\* values data() returns: None, a str, the monospace QFont, a QBrush
None == [kind |-> "None", s |-> ""]
Str(s) == [kind |-> "str", s |-> s]
monospace_font == [kind |-> "QFont", s |-> "Courier New"]
QBrush(c) == [kind |-> "QBrush", s |-> c]

\* str(time * 1e3) for a whole number of seconds: the product is a float
StrMillis(t) == ToString(t * 1000) \o ".0"

(***************************************************************************)
(* TestDataModel: the read-only query surface                               *)
(***************************************************************************)
\* the `testresults` property: the list `_testresults` refers to
Results == heap[testresults]

\* mutant: the column of a top-level parent is not looked at
rowCount_AnyColumn(par) ==
    IF ~par.valid THEN Return(Len(Results))
    ELSE IF par.id = TOPLEVEL_ID
    THEN LET res == GetItem(Results, par.row)
         IN  IF res.exc # "none" THEN res
             ELSE Return(Len(res.val.extra_text))
    ELSE Return(0)

rowCount(par) ==
    IF ~par.valid THEN Return(Len(Results))
    ELSE IF par.id = TOPLEVEL_ID /\ par.column = 0
    THEN LET res == GetItem(Results, par.row)
         IN  IF res.exc # "none" THEN res
             ELSE Return(Len(res.val.extra_text))
    ELSE Return(0)

columnCount(par) ==
    IF ~par.valid THEN Return(Len(HEADERS)) ELSE Return(1)

\* mutant: the row bound is off by one
hasIndex_OffByOne(row, column, par) ==
    IF row < 0 \/ column < 0 THEN Return(FALSE)
    ELSE LET rc == rowCount(par)
             cc == columnCount(par)
         IN  IF rc.exc # "none" THEN rc
             ELSE IF ~(row <= rc.val) THEN Return(FALSE)
             ELSE IF cc.exc # "none" THEN cc
             ELSE Return(column < cc.val)

\* QAbstractItemModel.hasIndex, which index() calls to check the bounds
hasIndex(row, column, par) ==
    IF row < 0 \/ column < 0 THEN Return(FALSE)
    ELSE LET rc == rowCount(par)
             cc == columnCount(par)
         IN  IF rc.exc # "none" THEN rc
             ELSE IF ~(row < rc.val) THEN Return(FALSE)
             ELSE IF cc.exc # "none" THEN cc
             ELSE Return(column < cc.val)

index(row, column, par) ==
    LET ok == hasIndex(row, column, par)
    IN  IF ok.exc # "none" THEN ok
        ELSE IF ~ok.val THEN Return(QModelIndex)
        ELSE IF ~par.valid THEN Return(createIndex(row, column, TOPLEVEL_ID))
        ELSE Return(createIndex(row, column, par.row))

\* mutant: the parent is looked up by the child's row, not by its id
parent_ByRow(idx) ==
    IF ~idx.valid THEN Return(QModelIndex)
    ELSE IF idx.id = TOPLEVEL_ID THEN Return(QModelIndex)
    ELSE index(idx.row, 0, QModelIndex)

parent(idx) ==
    IF ~idx.valid THEN Return(QModelIndex)
    ELSE IF idx.id = TOPLEVEL_ID THEN Return(QModelIndex)
    ELSE index(idx.id, 0, QModelIndex)

\* self.testresults[i].<field>, as a str
Field(i, f) ==
    LET res == GetItem(Results, i)
    IN  IF res.exc # "none" THEN res ELSE Return(Str(res.val[f]))

\* mutant: the detail line is looked up with row and id exchanged
data_DisplayRole_Swapped(idx) ==
    IF idx.id # TOPLEVEL_ID THEN
        LET res == GetItem(Results, idx.row)
        IN  IF res.exc # "none" THEN res
            ELSE LET line == GetItem(res.val.extra_text, idx.id)
                 IN  IF line.exc # "none" THEN line
                     ELSE Return(Str(line.val))
    ELSE Field(idx.row, "status")

\* data(), the branch `role == Qt.DisplayRole`
data_DisplayRole(idx) ==
    LET row == idx.row
        column == idx.column
        id == idx.id
    IN  IF id # TOPLEVEL_ID THEN
            LET res == GetItem(Results, id)
            IN  IF res.exc # "none" THEN res
                ELSE LET line == GetItem(res.val.extra_text, row)
                     IN  IF line.exc # "none" THEN line
                         ELSE Return(Str(line.val))
        ELSE IF column = STATUS_COLUMN THEN Field(row, "status")
        ELSE IF column = NAME_COLUMN THEN Field(row, "name")
        ELSE IF column = MESSAGE_COLUMN THEN Field(row, "message")
        ELSE IF column = TIME_COLUMN THEN
            LET res == GetItem(Results, row)
            IN  IF res.exc # "none" THEN res
                ELSE LET time == res.val.time
                     IN  IF time # <<>> /\ time[1] # 0
                         THEN Return(Str(StrMillis(time[1])))
                         ELSE Return(Str(""))
        ELSE Return(None)

data(idx, role) ==
    IF ~idx.valid THEN Return(None)
    ELSE LET row == idx.row
             column == idx.column
             id == idx.id
         IN
         IF role = DisplayRole THEN data_DisplayRole(idx)
         ELSE IF role = ToolTipRole THEN
             IF id = TOPLEVEL_ID /\ column = NAME_COLUMN THEN
                 LET res == GetItem(Results, row)
                 IN  IF res.exc # "none" THEN res
                     ELSE Return(Str(res.val.module \o "." \o res.val.name))
             ELSE Return(None)
         ELSE IF role = FontRole THEN
             IF id # TOPLEVEL_ID THEN Return(monospace_font)
             ELSE Return(None)
         ELSE IF role = BackgroundRole THEN
             IF id = TOPLEVEL_ID THEN
                 LET res == GetItem(Results, row)
                 IN  IF res.exc # "none" THEN res
                     ELSE Return(QBrush(COLORS[res.val.category]))
             ELSE Return(None)
         ELSE Return(None)

\* Counter(res.category for res in self.testresults)[cat]
RECURSIVE Counter(_, _)
Counter(seq, cat) ==
    IF seq = <<>> THEN 0
    ELSE (IF Head(seq).category = cat THEN 1 ELSE 0) + Counter(Tail(seq), cat)

\* mutant: PENDING results are counted as "other" too
summary_PendingIsOther ==
    IF Len(Results) = 0 THEN "No results to show."
    ELSE LET test_or_tests ==
                 IF Counter(Results, "FAIL") = 1 THEN "test" ELSE "tests"
             failed_txt == ToString(Counter(Results, "FAIL")) \o " "
                           \o test_or_tests \o " failed"
             passed_txt == ToString(Counter(Results, "OK")) \o " passed"
             other_txt == ToString(Counter(Results, "SKIP")
                                   + Counter(Results, "PENDING")) \o " other"
         IN  "<b>" \o failed_txt \o ", " \o passed_txt \o ", " \o other_txt
             \o "</b>"

summary ==
    IF Len(Results) = 0 THEN "No results to show."
    ELSE LET test_or_tests ==
                 IF Counter(Results, "FAIL") = 1 THEN "test" ELSE "tests"
             failed_txt == ToString(Counter(Results, "FAIL")) \o " "
                           \o test_or_tests \o " failed"
             passed_txt == ToString(Counter(Results, "OK")) \o " passed"
             other_txt == ToString(Counter(Results, "SKIP")) \o " other"
         IN  "<b>" \o failed_txt \o ", " \o passed_txt \o ", " \o other_txt
             \o "</b>"

(***************************************************************************)
(* TestDataView                                                             *)
(***************************************************************************)
\* QAbstractItemModel.hasChildren(): the root has rows and columns
hasChildren ==
    rowCount(QModelIndex).val > 0 /\ columnCount(QModelIndex).val > 0

\* mutant: the last child of every top-level row is left out
reset_SkipsLastChild ==
    IF hasChildren
    THEN UNION { LET idx == index(row, 0, QModelIndex).val
                 IN  {<<row, i>> : i \in 0..(rowCount(idx).val - 2)}
                 : row \in 0..(rowCount(QModelIndex).val - 1) }
    ELSE {}

\* reset(): QTreeView.reset forgets every spanned row; then each child i of
\* each top-level row is marked with setFirstColumnSpanned(i, index, True).
\* The value is the set of <<top-level row, child row>> marked afterwards.
reset ==
    IF hasChildren
    THEN UNION { LET idx == index(row, 0, QModelIndex).val
                 IN  {<<row, i>> : i \in 0..(rowCount(idx).val - 1)}
                 : row \in 0..(rowCount(QModelIndex).val - 1) }
    ELSE {}

(***************************************************************************)
(* State machine: the two mutating entry points, step by step, with the     *)
(* view's reset slot run by endResetModel's modelReset signal               *)
(***************************************************************************)
\* a notification of QAbstractItemModel; first and last are the row range of
\* the row signals and -1 for the reset signals, which carry none
Signal(name, first, last) == [signal |-> name, first |-> first, last |-> last]

\* "own" is the list the constructor creates, "arg" a list the backend has
\* built and is assigning, "held" the backend's list the model refers to
BackendLists == {"held", "arg"}
Refs == {"own"} \cup BackendLists

\* TestDataModel.__init__ (self.testresults = [] runs the setter on an
\* unobserved model), then TestDataView.setModel
Init ==
    /\ heap = [r \in Refs |-> <<>>]
    /\ testresults = "own"
    /\ passed = [r \in BackendLists |-> <<>>]
    /\ pc = "idle"
    /\ op = "none"
    /\ new_value = "own"
    /\ new_tests = <<>>
    /\ pre = <<>>
    /\ emitted = <<>>
    /\ spanned = {}

\* model.testresults = <a list the backend has just built>
CallSetFresh(content) ==
    /\ pc = "idle"
    /\ pc' = "set_enter"
    /\ op' = "set"
    /\ new_value' = "arg"
    /\ heap' = [heap EXCEPT !["arg"] = content]
    /\ passed' = [passed EXCEPT !["arg"] = content]
    /\ pre' = Results
    /\ emitted' = <<>>
    /\ new_tests' = <<>>
    /\ UNCHANGED <<testresults, spanned>>

\* model.testresults = <the list the model already holds>
CallSetSame ==
    /\ pc = "idle"
    /\ pc' = "set_enter"
    /\ op' = "set"
    /\ new_value' = testresults
    /\ passed' = [r \in BackendLists |->
                     IF r = testresults THEN heap[r] ELSE passed[r]]
    /\ pre' = Results
    /\ emitted' = <<>>
    /\ new_tests' = <<>>
    /\ UNCHANGED <<heap, testresults, spanned>>

\* mutant: the new results are put in front of the old ones
Iadd_Prepends(tests) ==
    /\ pc = "idle"
    /\ Len(Results) + Len(tests) <= MaxRows
    /\ op' = "add"
    /\ new_tests' = tests
    /\ pre' = Results
    /\ emitted' = <<>>
    /\ heap' = [heap EXCEPT ![testresults] = tests \o heap[testresults]]
    /\ new_value' = testresults
    /\ pc' = "set_enter"
    /\ UNCHANGED <<testresults, passed, spanned>>

\* model.add_testresults(tests): `self.testresults += new_tests`, first
\* half: the getter returns the list object, list.__iadd__ extends that
\* object in place and returns it; the setter is then entered with it
Iadd(tests) ==
    /\ pc = "idle"
    /\ Len(Results) + Len(tests) <= MaxRows
    /\ op' = "add"
    /\ new_tests' = tests
    /\ pre' = Results
    /\ emitted' = <<>>
    /\ heap' = [heap EXCEPT ![testresults] = heap[testresults] \o tests]
    /\ new_value' = testresults
    /\ pc' = "set_enter"
    /\ UNCHANGED <<testresults, passed, spanned>>

\* setter: self.beginResetModel()
BeginResetModel ==
    /\ pc = "set_enter"
    /\ emitted' = Append(emitted, Signal("modelAboutToBeReset", -1, -1))
    /\ pc' = "set_begun"
    /\ UNCHANGED <<heap, testresults, passed, op, new_value, new_tests, pre,
                   spanned>>

\* setter: self._testresults = new_value.  The list the model referred to
\* before is collected unless it is the one assigned; the assigned list,
\* now the one the model refers to, is called "held" from here on.
Assign ==
    /\ pc = "set_begun"
    /\ IF new_value = "arg"
       THEN /\ testresults' = "held"
            /\ new_value' = "held"
            /\ heap' = [r \in Refs |-> IF r = "held" THEN heap["arg"] ELSE <<>>]
            /\ passed' = [r \in BackendLists |->
                             IF r = "held" THEN passed["arg"] ELSE <<>>]
       ELSE /\ testresults' = new_value
            /\ UNCHANGED <<new_value, heap, passed>>
    /\ pc' = "set_assigned"
    /\ UNCHANGED <<op, new_tests, pre, emitted, spanned>>

\* setter: self.endResetModel(); the modelReset signal runs the view's reset
EndResetModel ==
    /\ pc = "set_assigned"
    /\ emitted' = Append(emitted, Signal("modelReset", -1, -1))
    /\ spanned' = reset
    /\ pc' = "done"
    /\ UNCHANGED <<heap, testresults, passed, op, new_value, new_tests, pre>>

\* the entry point returns to the backend
ReturnToCaller ==
    /\ pc = "done"
    /\ pc' = "idle"
    /\ op' = "none"
    /\ new_value' = "own"
    /\ new_tests' = <<>>
    /\ pre' = <<>>
    /\ emitted' = <<>>
    /\ UNCHANGED <<heap, testresults, passed, spanned>>

SetResults ==
    \/ \E content \in ArgLists : CallSetFresh(content)
    \/ CallSetSame

AddResults ==
    \/ \E tests \in ArgLists : Iadd(tests)
    \/ Iadd(Results)

Next ==
    \/ SetResults
    \/ AddResults
    \/ BeginResetModel
    \/ Assign
    \/ EndResetModel
    \/ ReturnToCaller

Spec == Init /\ [][Next]_vars

(***************************************************************************)
(* Inputs of the read-only queries                                          *)
(***************************************************************************)
Rows == -1..MaxRows
Cols == -1..Len(HEADERS)

\* every index the model can ever have handed out within the bounds
Indexes ==
    {QModelIndex}
    \cup {createIndex(r, c, TOPLEVEL_ID) :
              r \in 0..(MaxRows - 1), c \in 0..(Len(HEADERS) - 1)}
    \cup {createIndex(i, 0, r) : r \in 0..(MaxRows - 1), i \in 0..(MaxExtra - 1)}

\* the valid indexes index() hands out below the parents P
Below(P) ==
    {r.val : r \in {x \in {index(row, column, par) :
                               row \in Rows, column \in Cols, par \in P} :
                        x.exc = "none" /\ x.val.valid}}

\* the indexes obtainable from index() in the current state
TopLevel == Below({QModelIndex})
SecondLevel == Below(TopLevel)
Obtainable ==
    {QModelIndex} \cup TopLevel \cup SecondLevel \cup Below(SecondLevel)

\* no entry point is running: the view queries the model from the event loop
Quiescent == pc = "idle"

(***************************************************************************)
(* C1: every add_testresults(new) emits rowsAboutToBeInserted and then      *)
(* rowsInserted for the rows [oldLen, oldLen + len(new) - 1] under the      *)
(* root, and no modelAboutToBeReset / modelReset pair.                      *)
(***************************************************************************)
C1_AddEmitsInsertNotifications ==
    (pc = "done" /\ op = "add") =>
        emitted = << Signal("rowsAboutToBeInserted", Len(pre),
                            Len(pre) + Len(new_tests) - 1),
                     Signal("rowsInserted", Len(pre),
                            Len(pre) + Len(new_tests) - 1) >>

(***************************************************************************)
(* C2: in both entry points the model's sequence changes only between the   *)
(* begin and the end notification: before the begin notification it still   *)
(* equals its value at the call, after the end notification it is final.    *)
(***************************************************************************)
C2_MutationOnlyBetweenBeginAndEnd ==
    /\ pc = "set_enter" => Results = pre
    /\ (pc = "done" /\ op = "set") =>
           Results = (IF new_value \in BackendLists THEN passed[new_value]
                      ELSE pre)
    /\ (pc = "done" /\ op = "add") => Results = pre \o new_tests

(***************************************************************************)
(* C3: after add_testresults(new) on a model holding old, the model holds   *)
(* old followed by new: rowCount(root) = len(old) + len(new), the first     *)
(* len(old) rows are unchanged and row len(old) + i is new[i].              *)
(***************************************************************************)
C3_AddAppendsInOrder ==
    (pc = "done" /\ op = "add") =>
        /\ rowCount(QModelIndex) = Return(Len(pre) + Len(new_tests))
        /\ \A i \in 0..(Len(pre) - 1) : GetItem(Results, i) = Return(pre[i + 1])
        /\ \A i \in 0..(Len(new_tests) - 1) :
               GetItem(Results, Len(pre) + i) = Return(new_tests[i + 1])

C3_Witness ==
    /\ pc = "done" /\ op = "add"
    /\ Len(pre) >= 1 /\ Len(new_tests) = 2
    /\ new_tests[1] # new_tests[2]
    /\ pre[1] # new_tests[1]

(***************************************************************************)
(* C4: index(row, column, parent) never raises; it is the invalid index     *)
(* when row is outside [0, rowCount(parent)) or column is outside           *)
(* [0, columnCount(parent)), and otherwise a valid index whose id is        *)
(* TOPLEVEL_ID under the root and parent.row() under a top-level index.     *)
(* Under a second-level index, or a top-level index of a column other than  *)
(* 0, it is always the invalid index.  (Parents: the indexes obtainable in  *)
(* the current state.)                                                      *)
(***************************************************************************)
C4_IndexChecksBounds ==
    Quiescent =>
        \A par \in Obtainable, row \in Rows, column \in Cols :
            LET r == index(row, column, par)
                rc == rowCount(par)
                cc == columnCount(par)
                inside == /\ 0 <= row /\ row < rc.val
                          /\ 0 <= column /\ column < cc.val
            IN  /\ r.exc = "none"
                /\ rc.exc = "none" /\ cc.exc = "none"
                /\ ~inside => r.val = QModelIndex
                /\ inside =>
                       /\ r.val.valid
                       /\ r.val.row = row /\ r.val.column = column
                       /\ ~par.valid => r.val.id = TOPLEVEL_ID
                       /\ (par.valid /\ par.id = TOPLEVEL_ID) =>
                              r.val.id = par.row
                /\ (par.valid /\ (par.id # TOPLEVEL_ID \/ par.column # 0)) =>
                       r.val = QModelIndex

C4_Witness ==
    /\ Quiescent
    /\ \E par \in TopLevel :
           /\ par.row = 1 /\ par.column = 0
           /\ index(MaxExtra - 1, 0, par)
                  = Return(createIndex(MaxExtra - 1, 0, 1))
           /\ index(MaxExtra, 0, par) = Return(QModelIndex)
           /\ index(0, 1, par) = Return(QModelIndex)
    /\ \E par \in SecondLevel : index(0, 0, par) = Return(QModelIndex)
    /\ \E par \in TopLevel :
           par.column = 1 /\ index(0, 0, par) = Return(QModelIndex)

(***************************************************************************)
(* C5: parent inverts index on both levels: for valid (row, column) under   *)
(* the root, parent(index(row, column, root)) is the root and the index     *)
(* carries row and column; for a top-level row R and a child row            *)
(* C < len(results[R].extra_text), parent(index(C, 0, index(R, 0, root)))   *)
(* is index(R, 0, root).                                                    *)
(***************************************************************************)
C5_ParentInvertsIndex ==
    Quiescent =>
        /\ \A row \in 0..(Len(Results) - 1), column \in 0..(Len(HEADERS) - 1) :
               LET i == index(row, column, QModelIndex)
               IN  /\ i.exc = "none" /\ i.val.valid
                   /\ i.val.row = row /\ i.val.column = column
                   /\ parent(i.val) = Return(QModelIndex)
        /\ \A R \in 0..(Len(Results) - 1) :
               \A C \in 0..(Len(Results[R + 1].extra_text) - 1) :
                   LET top == index(R, 0, QModelIndex)
                       child == index(C, 0, top.val)
                   IN  /\ top.exc = "none" /\ top.val.valid
                       /\ child.exc = "none" /\ child.val.valid
                       /\ child.val.row = C
                       /\ parent(child.val) = top

C5_Witness ==
    /\ Quiescent
    /\ Len(Results) >= 2
    /\ Len(Results[2].extra_text) >= 1
    /\ parent(index(0, 0, index(1, 0, QModelIndex).val).val)
           = Return(createIndex(1, 0, TOPLEVEL_ID))
    /\ parent(index(1, 3, QModelIndex).val) = Return(QModelIndex)

(***************************************************************************)
(* C6: in every reachable state the tree has two levels: rowCount(root) is  *)
(* the number of results, rowCount of the top-level index of row R and      *)
(* column 0 is len(results[R].extra_text), and rowCount of a second-level   *)
(* index or of a top-level index of another column is 0.                    *)
(***************************************************************************)
C6_TwoLevels ==
    /\ rowCount(QModelIndex) = Return(Len(Results))
    /\ \A p \in Indexes \ {QModelIndex} :
           /\ (p.id = TOPLEVEL_ID /\ p.column = 0 /\ p.row < Len(Results)) =>
                  rowCount(p) = Return(Len(Results[p.row + 1].extra_text))
           /\ (p.id = TOPLEVEL_ID /\ p.column # 0) => rowCount(p) = Return(0)
           /\ p.id # TOPLEVEL_ID => rowCount(p) = Return(0)

C6_Witness ==
    /\ Quiescent
    /\ Len(Results) = MaxRows
    /\ rowCount(createIndex(1, 0, TOPLEVEL_ID)) = Return(MaxExtra)
    /\ rowCount(createIndex(1, 1, TOPLEVEL_ID)) = Return(0)
    /\ rowCount(createIndex(0, 0, 1)) = Return(0)

(***************************************************************************)
(* C7: summary() reflects the current sequence: it is the "no results"      *)
(* message exactly when the sequence is empty, and otherwise                *)
(* "<b>F test|tests failed, P passed, S other</b>" with F, P, S the numbers *)
(* of FAIL, OK and SKIP results (PENDING counted nowhere) and "test"        *)
(* exactly when F = 1.                                                      *)
(***************************************************************************)
NumberOf(cat) ==
    Cardinality({i \in DOMAIN Results : Results[i].category = cat})

C7_SummaryCounts ==
    /\ (summary = "No results to show.") <=> (Results = <<>>)
    /\ rowCount(QModelIndex) = Return(0) <=> (Results = <<>>)
    /\ Results # <<>> =>
           summary = "<b>" \o ToString(NumberOf("FAIL")) \o " "
                     \o (IF NumberOf("FAIL") = 1 THEN "test" ELSE "tests")
                     \o " failed, " \o ToString(NumberOf("OK")) \o " passed, "
                     \o ToString(NumberOf("SKIP")) \o " other</b>"

C7_Witness ==
    /\ pc = "done"
    /\ NumberOf("PENDING") = 1
    /\ summary = "<b>1 test failed, 1 passed, 0 other</b>"

(***************************************************************************)
(* C8: data(index, role) is None for the invalid index under every role and *)
(* for every index under a role other than Display, ToolTip, Font and       *)
(* Background; for every index obtainable in the current state no role      *)
(* raises, ToolTip has a value only for the top-level Name column, Font     *)
(* only for second-level indexes, Background only for top-level indexes.    *)
(***************************************************************************)
C8_DataDegradesToNone ==
    Quiescent =>
        /\ \A role \in Roles : data(QModelIndex, role) = Return(None)
        /\ \A idx \in Indexes \cup Obtainable :
               \A role \in Roles \ {DisplayRole, ToolTipRole, FontRole,
                                    BackgroundRole} :
                   data(idx, role) = Return(None)
        /\ \A idx \in Obtainable \ {QModelIndex} :
               /\ \A role \in Roles : data(idx, role).exc = "none"
               /\ data(idx, DisplayRole).val.kind = "str"
               /\ data(idx, ToolTipRole).val # None
                      <=> (idx.id = TOPLEVEL_ID /\ idx.column = NAME_COLUMN)
               /\ data(idx, FontRole).val # None <=> idx.id # TOPLEVEL_ID
               /\ data(idx, BackgroundRole).val # None <=> idx.id = TOPLEVEL_ID

C8_Witness ==
    /\ Quiescent
    /\ createIndex(MaxExtra - 1, 0, 1) \in Obtainable
    /\ createIndex(0, 0, 1) \in Obtainable
    /\ data(createIndex(0, 0, 1), DisplayRole) = Return(Str("line1"))
    /\ data(createIndex(0, 0, 1), FontRole) = Return(monospace_font)
    /\ data(createIndex(0, 0, 1), BackgroundRole) = Return(None)
    /\ data(createIndex(0, TIME_COLUMN, TOPLEVEL_ID), DisplayRole)
           = Return(Str("2000.0"))
    /\ data(createIndex(1, NAME_COLUMN, TOPLEVEL_ID), ToolTipRole).val.kind
           = "str"
    /\ data(createIndex(1, 0, TOPLEVEL_ID), BackgroundRole)
           = Return(QBrush("#FF0000"))
    /\ data(createIndex(1, 0, TOPLEVEL_ID), "UserRole") = Return(None)

(***************************************************************************)
(* C9: once a testresults assignment or an add_testresults call has         *)
(* completed, every detail row of the model (child i <                      *)
(* len(results[R].extra_text) of top-level row R) is marked                 *)
(* first-column-spanned in the view.                                        *)
(***************************************************************************)
C9_DetailRowsSpanned ==
    (pc \in {"done", "idle"}) =>
        \A R \in 0..(Len(Results) - 1) :
            \A i \in 0..(Len(Results[R + 1].extra_text) - 1) :
                <<R, i>> \in spanned

C9_Witness ==
    /\ pc = "done" /\ op = "add"
    /\ Len(pre) >= 1 /\ Len(new_tests) >= 1
    /\ Len(new_tests[1].extra_text) = MaxExtra
    /\ <<Len(pre), MaxExtra - 1>> \in spanned

(***************************************************************************)
(* C10: the model does not share its sequence with the backend: a list the  *)
(* backend assigned to testresults still has the content it had when it     *)
(* was assigned, whatever add_testresults calls followed.                   *)
(***************************************************************************)
C10_BackendListUnchanged ==
    \A l \in BackendLists : heap[l] = passed[l]

====
